---- MODULE Spec2Model ----
(***************************************************************************)
(* Model of the simulation loop of jet_shooter.py (main, lines 266-429)    *)
(* and of the sprite classes it drives.                                    *)
(*                                                                         *)
(* One iteration of `while running` is modelled as the sequence of its     *)
(* phases, each one action, in program order:                              *)
(*   poll -> events -> spawn -> update -> shoot -> projhit -> bombhit      *)
(*        -> enemyhit -> poll ... -> done                                  *)
(* Sprite groups are sequences in insertion order (pygame groups iterate   *)
(* in insertion order). all_sprites is the player followed by every enemy, *)
(* projectile and bomb; explosions are only in their own group.            *)
(*                                                                         *)
(* Vector2 positions are floats in the source; here they are fixed-point   *)
(* integers in units of 1/Scale pixel. int() truncates toward zero.        *)
(***************************************************************************)
EXTENDS Integers, Sequences, FiniteSets, TLC

VARIABLES
    pc,           \* position in main's loop body
    running,      \* main: running
    keys,         \* main: keys = pygame.key.get_pressed() of this iteration
    evn,          \* history: number of input events handled so far
    quit,         \* history: a QUIT / ESC event has been handled
    tick,         \* history: number of loop iterations started
    nextId,       \* history: identity of the next sprite object created
    last_fire,    \* history: the iteration of the last successful Player.fire()
    last_ev,      \* history: the event the `for event` loop handled last, "NONE" outside it
    spawned_at,   \* history: the iterations in which spawn_enemy() was called
    prev,         \* history: the game state when the current iteration began
    spawn_timer,  \* main: spawn_timer
    player,       \* the Player sprite
    enemies,      \* group enemies
    projectiles,  \* group projectiles
    bombs,        \* group bombs
    explosions    \* group explosions

vars == <<pc, running, keys, evn, quit, tick, nextId, last_fire, last_ev, spawned_at, prev,
          spawn_timer, player, enemies, projectiles, bombs, explosions>>

(* the game state proper *)
Game ==
    [player |-> player, enemies |-> enemies, projectiles |-> projectiles,
     bombs |-> bombs, explosions |-> explosions, spawn_timer |-> spawn_timer]

(* what prev records when an iteration begins *)
Snapshot ==
    [player |-> player, enemies |-> enemies, projectiles |-> projectiles,
     bombs |-> bombs, explosions |-> explosions, spawn_timer |-> spawn_timer,
     last_fire |-> last_fire]

----------------------------------------------------------------------------
(* Bounds of the model *)

MaxTicks == 3
MaxEvents == 2

(* the length of the long runs without input, and the identities followed in them *)
FallTicks == 770
FallIds == 3

(* Fixed-point scale: positions and velocities are in 1/Scale pixel *)
Scale == 10 * 10 * 10

----------------------------------------------------------------------------
(* Program constants *)

WIDTH == 900
HEIGHT == 600
PLAYER_SPEED == 4
PLAYER_W == 160
PLAYER_H == 102
PLAYER_LIVES == 3
FIRE_RATE == 14
ENEMY_W == 40
ENEMY_H == 28
BOMB_SIZE == 10
BOMB_SPEED_MILLI == 4500
EXPLOSION_LIFETIME == 18
SPAWN_MIN == 18
SPAWN_MAX == 42
SPAWN_MARGIN == 40
SPAWN_Y == -20
SHOOT_INIT_MIN == 40
SHOOT_INIT_MAX == 120
SHOOT_RESET_MIN == 60
SHOOT_RESET_MAX == 140
KILL_SCORE == 5
BOMB_EXPLOSION_RADIUS == 36
ENEMY_EXPLOSION_RADIUS == 28

NEON_PINK == <<255, 28, 179>>
NEON_YELLOW == <<255, 210, 20>>
WATER_BLUE == <<80, 160, 255>>

Elements == {"Air", "Water", "Fire"}
Kinds == {"Beginner", "Mid", "Hard"}

----------------------------------------------------------------------------
(* Arithmetic helpers *)

Max(a, b) == IF a >= b THEN a ELSE b
Min(a, b) == IF a <= b THEN a ELSE b

(* int(v) of a float v given in 1/Scale units: truncation toward zero *)
Trunc(v) == IF v >= 0 THEN v \div Scale ELSE -((-v) \div Scale)

(* a / b rounded toward zero (b > 0) *)
DivTrunc(a, b) == IF a >= 0 THEN a \div b ELSE -((-a) \div b)

RECURSIVE SqrtFrom(_, _, _)
SqrtFrom(v, lo, hi) ==
    IF lo >= hi THEN lo
    ELSE LET mid == (lo + hi + 1) \div 2
         IN IF mid * mid <= v THEN SqrtFrom(v, mid, hi) ELSE SqrtFrom(v, lo, mid - 1)

(* floor of the square root of v, 0 <= v < 2^30 *)
ISqrt(v) == SqrtFrom(v, 0, 32767)

(* the largest member of a finite set of naturals, 0 for the empty set *)
MaxOf(S) == IF S = {} THEN 0 ELSE CHOOSE m \in S : \A n \in S : n <= m

RemoveAt(s, i) == SubSeq(s, 1, i - 1) \o SubSeq(s, i + 1, Len(s))

Ids(s) == {s[i].id : i \in 1..Len(s)}

----------------------------------------------------------------------------
(* Rectangles: [l, t, r, b], as pygame.Rect left, top, right, bottom *)

RectAround(cx, cy, w, h) ==
    [l |-> cx - w \div 2, t |-> cy - h \div 2,
     r |-> cx - w \div 2 + w, b |-> cy - h \div 2 + h]

(* pygame.Rect.colliderect for rectangles of positive size *)
CollideRect(a, b) == a.l < b.r /\ a.r > b.l /\ a.t < b.b /\ a.b > b.t

(* sprite.rect.center after `self.rect.center = (int(self.pos.x), int(self.pos.y))` *)
Center(s) == [x |-> Trunc(s.px), y |-> Trunc(s.py)]

----------------------------------------------------------------------------
(* Player *)

PlayerRect(p) == [l |-> p.x, t |-> p.y, r |-> p.x + PLAYER_W, b |-> p.y + PLAYER_H]

PlayerCenter(p) == [x |-> p.x + PLAYER_W \div 2, y |-> p.y + PLAYER_H \div 2]

(* Player.__init__(pos) *)
NewPlayer(cx, cy) ==
    [x |-> cx - PLAYER_W \div 2, y |-> cy - PLAYER_H \div 2,
     lives |-> PLAYER_LIVES, score |-> 0, element |-> "Air", fire_cooldown |-> 0]

(* keys: the four movement directions (arrow key or its letter) *)
KeyStates == [left : BOOLEAN, right : BOOLEAN, up : BOOLEAN, down : BOOLEAN]

NoKeys == [left |-> FALSE, right |-> FALSE, up |-> FALSE, down |-> FALSE]

KeyDx(k) == IF k.right THEN PLAYER_SPEED ELSE IF k.left THEN -PLAYER_SPEED ELSE 0

KeyDy(k) == IF k.down THEN PLAYER_SPEED ELSE IF k.up THEN -PLAYER_SPEED ELSE 0

CooldownStep(c) == IF c > 0 THEN c - 1 ELSE c

(* Player.update(keys) *)
(* a movement without the clamp *)
PlayerUpdateFree(p, k) ==
    [p EXCEPT !.x = p.x + KeyDx(k), !.y = p.y + KeyDy(k),
              !.fire_cooldown = CooldownStep(p.fire_cooldown)]

PlayerUpdate(p, k) ==
    [p EXCEPT !.x = Max(10, Min(WIDTH - 10 - PLAYER_W, p.x + KeyDx(k))),
              !.y = Max(60, Min(HEIGHT - 10 - PLAYER_H, p.y + KeyDy(k))),
              !.fire_cooldown = CooldownStep(p.fire_cooldown)]

----------------------------------------------------------------------------
(* Projectile *)

ProjRadius(el) == CASE el = "Air" -> 16 [] el = "Water" -> 9 [] el = "Fire" -> 14

ProjColor(el) ==
    CASE el = "Air" -> NEON_PINK [] el = "Water" -> WATER_BLUE [] el = "Fire" -> NEON_YELLOW

(* Projectile.__init__(pos, vel, element): pos in pixels, vel in 1/Scale pixel *)
NewProjectile(id, x, y, vx, vy, el) ==
    [id |-> id, px |-> x * Scale, py |-> y * Scale, vx |-> vx, vy |-> vy,
     element |-> el, radius |-> ProjRadius(el)]

ProjRect(p) == RectAround(Center(p).x, Center(p).y, 2 * p.radius, 2 * p.radius)

(* the velocities of the burst of Player.fire, in order of creation *)
AIR_VY == -8000
FIRE_VY == -12000
WATER_VY == -6000
WATER_VX == 897

(* a Water burst without the spread *)
BurstUnspread(el) ==
    CASE el = "Air" -> << <<0, AIR_VY>> >>
      [] el = "Water" -> << <<0, WATER_VY>>, <<0, WATER_VY>>, <<0, WATER_VY>> >>
      [] el = "Fire" -> << <<0, FIRE_VY>> >>

BurstVelocities(el) ==
    CASE el = "Air" -> << <<0, AIR_VY>> >>
      [] el = "Water" -> << <<-WATER_VX, WATER_VY>>, <<0, WATER_VY>>, <<WATER_VX, WATER_VY>> >>
      [] el = "Fire" -> << <<0, FIRE_VY>> >>

(* a fire() that ignores the cooldown *)
FireNeverBlocked(p) == FALSE

(* Player.fire(): `if self.fire_cooldown > 0: return []` *)
FireCooldownBlocks(p) == p.fire_cooldown > 0

(* Player.fire(): the shots returned, given the id of the first one *)
FireShots(p, id) ==
    IF FireCooldownBlocks(p) THEN << >>
    ELSE LET vs == BurstVelocities(p.element)
             c == PlayerCenter(p)
         IN [i \in 1..Len(vs) |->
                NewProjectile(id + i - 1, c.x, c.y - 10, vs[i][1], vs[i][2], p.element)]

(* Player.fire(): the player afterwards *)
FirePlayer(p) ==
    IF FireCooldownBlocks(p) THEN p ELSE [p EXCEPT !.fire_cooldown = FIRE_RATE]

ProjOffScreen(p) ==
    LET r == ProjRect(p)
    IN r.b < 0 \/ r.t > HEIGHT \/ r.l > WIDTH \/ r.r < 0

(* Projectile.update without the kill: pos += vel *)
Move(s) == [s EXCEPT !.px = s.px + s.vx, !.py = s.py + s.vy]

----------------------------------------------------------------------------
(* Bomb *)

BombRect(b) == RectAround(Center(b).x, Center(b).y, BOMB_SIZE, BOMB_SIZE)

(* (target - pos).normalize() * 4.5 in 1/Scale pixel; the norm is taken to 1/10 pixel *)
BombVelocity(fromx, fromy, tox, toy) ==
    LET dx == tox - fromx
        dy == toy - fromy
        n10 == ISqrt((dx * dx + dy * dy) * 100)
    IN <<DivTrunc(dx * BOMB_SPEED_MILLI * 10, n10), DivTrunc(dy * BOMB_SPEED_MILLI * 10, n10)>>

(* Bomb.__init__(pos, target) *)
NewBomb(id, fromx, fromy, tox, toy) ==
    LET v == BombVelocity(fromx, fromy, tox, toy)
    IN [id |-> id, px |-> fromx * Scale, py |-> fromy * Scale, vx |-> v[1], vy |-> v[2]]

BombOffScreen(b) ==
    LET r == BombRect(b)
    IN r.t > HEIGHT \/ r.l > WIDTH \/ r.r < 0

----------------------------------------------------------------------------
(* Explosion *)

NewExplosion(id, cx, cy, radius, color) ==
    [id |-> id, cx |-> cx, cy |-> cy, radius |-> radius, color |-> color,
     lifetime |-> EXPLOSION_LIFETIME]

(* Explosion.update without the kill *)
ExplosionStep(x) == [x EXCEPT !.lifetime = x.lifetime - 1]

ExplosionDead(x) == x.lifetime <= 0

----------------------------------------------------------------------------
(* Enemy *)

KindHp(kind) == CASE kind = "Beginner" -> 1 [] kind = "Mid" -> 2 [] OTHER -> 3

(* speed in 1/Scale pixel per update *)
KindSpeed(kind) == CASE kind = "Beginner" -> 1000 [] kind = "Mid" -> 1200 [] OTHER -> 900

KindColor(kind) ==
    CASE kind = "Beginner" -> <<90, 200, 255>>
      [] kind = "Mid" -> <<255, 120, 90>>
      [] OTHER -> <<255, 80, 200>>

(* Vector2(u, 1).normalize() in 1/Scale units, for draws u of random.uniform(-0.6, 0.6) *)
(* at which it is exact: u = 0 and u = +-7/24                                            *)
Directions == {<<0, 1000>>, <<280, 960>>, <<-280, 960>>}

(* Enemy.__init__(pos, kind) with the draws dir (direction) and st (shoot_timer) *)
NewEnemy(id, x, kind, dir, st) ==
    [id |-> id, kind |-> kind, px |-> x * Scale, py |-> SPAWN_Y * Scale,
     dx |-> dir[1], dy |-> dir[2], speed |-> KindSpeed(kind),
     hp |-> KindHp(kind), shoot_timer |-> st]

EnemyRect(e) == RectAround(Center(e).x, Center(e).y, ENEMY_W, ENEMY_H)

(* Enemy.update without the kill: pos += direction * speed *)
EnemyMove(e) ==
    [e EXCEPT !.px = e.px + DivTrunc(e.dx * e.speed, Scale),
              !.py = e.py + DivTrunc(e.dy * e.speed, Scale)]

(* an enemy that is never taken off the screen *)
EnemyNeverOff(e) == FALSE

EnemyOffScreen(e) == EnemyRect(e).t > HEIGHT + 20

----------------------------------------------------------------------------
(* Sprite groups *)

(* index of the first sprite of group s whose rectangle collides with rect, or 0: *)
(* pygame.sprite.spritecollideany                                                  *)
(* a tie-break by the last colliding sprite of the group *)
LastHit(hits) == IF hits = {} THEN 0 ELSE CHOOSE i \in hits : \A j \in hits : i >= j

First(hits) == IF hits = {} THEN 0 ELSE CHOOSE i \in hits : \A j \in hits : i <= j

(* a collision test that finds no enemy *)
NoEnemyHit(rect, es) == 0

FirstEnemyHit(rect, es) == First({i \in 1..Len(es) : CollideRect(rect, EnemyRect(es[i]))})

FirstBombHit(rect, bs) == First({i \in 1..Len(bs) : CollideRect(rect, BombRect(bs[i]))})

(* Group.update() for a group of sprites whose update moves them and kills them off screen *)
ProjectilesUpdate(ps) == SelectSeq([i \in 1..Len(ps) |-> Move(ps[i])], LAMBDA p : ~ProjOffScreen(p))

BombsUpdate(bs) == SelectSeq([i \in 1..Len(bs) |-> Move(bs[i])], LAMBDA b : ~BombOffScreen(b))

EnemiesUpdate(es) ==
    SelectSeq([i \in 1..Len(es) |-> EnemyMove(es[i])], LAMBDA e : ~EnemyOffScreen(e))

ExplosionsUpdate(xs) ==
    SelectSeq([i \in 1..Len(xs) |-> ExplosionStep(xs[i])], LAMBDA x : ~ExplosionDead(x))

(* projectiles updated through one group only *)
ProjectilesTickOnce(ps) == ProjectilesUpdate(ps)

(* lines 322-324: a projectile is a member of all_sprites and of projectiles, and each *)
(* group's update() calls its update() once                                            *)
ProjectilesTick(ps) == ProjectilesUpdate(ProjectilesUpdate(ps))

(* lines 322-324: likewise a bomb, member of all_sprites and of bombs *)
BombsTick(bs) == BombsUpdate(BombsUpdate(bs))

----------------------------------------------------------------------------
(* Inputs of one run, drawn from small sets *)

EventKinds == {"QUIT", "ESCAPE", "SPACE", "K1", "K2", "K3", "Q", "E", "OTHER"}

Held(l, r, u, d) == [left |-> l, right |-> r, up |-> u, down |-> d]

(* key states sampled by get_pressed(): nothing held, left and up held, all four held *)
KeyChoices == {NoKeys, Held(TRUE, FALSE, TRUE, FALSE), Held(TRUE, TRUE, TRUE, TRUE)}

(* draws of one spawn: t = random.randint(18, 42), x = random.randint(40, WIDTH - 40), *)
(* kind = random.choices(kinds), dir from random.uniform(-0.6, 0.6), and                *)
(* st = random.randint(40, 120); the ends of each range, for every kind                 *)
(* draws with a timer below the range *)
SpawnDrawsEarly ==
    {[t |-> SPAWN_MIN - 1, x |-> SPAWN_MARGIN, kind |-> kind, dir |-> <<0, 1000>>,
      st |-> SHOOT_INIT_MIN] : kind \in Kinds}

SpawnDraws ==
    {[t |-> SPAWN_MIN, x |-> SPAWN_MARGIN, kind |-> kind, dir |-> <<0, 1000>>,
      st |-> SHOOT_INIT_MIN] : kind \in Kinds}
    \cup
    {[t |-> SPAWN_MAX, x |-> WIDTH - SPAWN_MARGIN, kind |-> kind, dir |-> <<280, 960>>,
      st |-> SHOOT_INIT_MAX] : kind \in Kinds}

(* draws of random.randint(60, 140) *)
(* draws below the range *)
ShootResetDrawsEarly == {SHOOT_RESET_MIN - 1}

ShootResetDraws == {SHOOT_RESET_MIN, SHOOT_RESET_MAX}

----------------------------------------------------------------------------
(* main: the loop *)

Order == <<"Air", "Water", "Fire">>

IndexOf(el) == CHOOSE i \in 1..3 : Order[i] = el

(* order[(idx - 1) % len(order)] and order[(idx + 1) % len(order)], idx 0-based *)
CyclePrev(el) == Order[((IndexOf(el) - 1 - 1) % 3) + 1]

(* a cycle-next that stops at the end of the order *)
CycleNextNoWrap(el) == Order[Min(IndexOf(el) + 1, 3)]

CycleNext(el) == Order[((IndexOf(el) - 1 + 1) % 3) + 1]

(* `while running:` is true: clock.tick, keys = get_pressed(), the events are fetched *)
Poll ==
    /\ pc = "poll" /\ running /\ tick < MaxTicks
    /\ \E k \in KeyChoices : keys' = k
    /\ tick' = tick + 1
    /\ prev' = Snapshot
    /\ pc' = "events"
    /\ UNCHANGED <<last_ev, spawned_at,
                   running, evn, quit, nextId, last_fire, spawn_timer, player, enemies,
                   projectiles, bombs, explosions>>

(* `while running:` is false: the end screen, pygame.quit(), sys.exit() *)
Exit ==
    /\ pc = "poll" /\ ~running
    /\ pc' = "done"
    /\ UNCHANGED <<last_ev, spawned_at,
                   running, keys, evn, quit, tick, nextId, last_fire, prev, spawn_timer,
                   player, enemies, projectiles, bombs, explosions>>

(* player.element after a KEYDOWN event of kind ev *)
ElementAfter(ev, el) ==
    CASE ev = "K1" -> "Air"
      [] ev = "K2" -> "Water"
      [] ev = "K3" -> "Fire"
      [] ev = "Q" -> CyclePrev(el)
      [] ev = "E" -> CycleNext(el)
      [] OTHER -> el

(* one pass of `for event in pygame.event.get()` for an event of kind ev *)
HandleEvent(ev) ==
    /\ pc = "events" /\ evn < MaxEvents
    /\ evn' = evn + 1
    /\ last_ev' = ev
    /\ running' = IF ev \in {"QUIT", "ESCAPE"} THEN FALSE ELSE running
    /\ quit' = (quit \/ ev \in {"QUIT", "ESCAPE"})
    /\ LET shots == IF ev = "SPACE" THEN FireShots(player, nextId) ELSE << >>
           p1 == IF ev = "SPACE" THEN FirePlayer(player) ELSE player
       IN /\ projectiles' = projectiles \o shots
          /\ nextId' = nextId + Len(shots)
          /\ last_fire' = IF shots # << >> THEN tick ELSE last_fire
          /\ player' = [p1 EXCEPT !.element = ElementAfter(ev, p1.element)]
    /\ UNCHANGED <<spawned_at,
                   pc, keys, tick, prev, spawn_timer, enemies, bombs, explosions>>

Events == \E ev \in EventKinds : HandleEvent(ev)

(* the event list is exhausted *)
EndEvents ==
    /\ pc = "events"
    /\ pc' = "spawn"
    /\ last_ev' = "NONE"
    /\ UNCHANGED <<spawned_at,
                   running, keys, evn, quit, tick, nextId, last_fire, prev, spawn_timer,
                   player, enemies, projectiles, bombs, explosions>>

(* lines 313-319: spawn logic, with spawn_enemy() and Enemy.__init__ *)
Spawn ==
    /\ pc = "spawn"
    /\ pc' = "update"
    /\ IF spawn_timer - 1 <= 0
       THEN \E d \in SpawnDraws :
               /\ spawn_timer' = d.t
               /\ enemies' = Append(enemies, NewEnemy(nextId, d.x, d.kind, d.dir, d.st))
               /\ nextId' = nextId + 1
               /\ spawned_at' = Append(spawned_at, tick)
       ELSE /\ spawn_timer' = spawn_timer - 1
            /\ UNCHANGED <<enemies, nextId, spawned_at>>
    /\ UNCHANGED <<last_ev,
                   running, keys, evn, quit, tick, last_fire, prev, player, projectiles,
                   bombs, explosions>>

(* lines 321-325: all_sprites.update(keys); projectiles.update(); bombs.update(); *)
(* explosions.update()                                                            *)
Update ==
    /\ pc = "update"
    /\ pc' = "shoot"
    /\ player' = PlayerUpdate(player, keys)
    /\ enemies' = EnemiesUpdate(enemies)
    /\ projectiles' = ProjectilesTick(projectiles)
    /\ bombs' = BombsTick(bombs)
    /\ explosions' = ExplosionsUpdate(explosions)
    /\ UNCHANGED <<last_ev, spawned_at,
                   running, keys, evn, quit, tick, nextId, last_fire, prev, spawn_timer>>

(* lines 327-335: enemy shooting *)
Firing(es) == {i \in 1..Len(es) : es[i].kind = "Hard" /\ es[i].shoot_timer - 1 <= 0}

(* Vector2.normalize() raises ValueError on a vector of length zero *)
ZeroAim(es, p) ==
    \E i \in Firing(es) : Center(es[i]).x = PlayerCenter(p).x /\ Center(es[i]).y = PlayerCenter(p).y

ShootTimers(es, draw) ==
    [i \in 1..Len(es) |->
        IF es[i].kind # "Hard" THEN es[i]
        ELSE IF i \in Firing(es) THEN [es[i] EXCEPT !.shoot_timer = draw[i]]
        ELSE [es[i] EXCEPT !.shoot_timer = es[i].shoot_timer - 1]]

(* bombs aimed at where the player was when the iteration began *)
NewBombsStale(es, p, id) ==
    LET fs == SelectSeq([i \in 1..Len(es) |-> i], LAMBDA i : i \in Firing(es))
    IN [k \in 1..Len(fs) |->
           NewBomb(id + k - 1, Center(es[fs[k]]).x, Center(es[fs[k]]).y,
                   PlayerCenter(prev.player).x, PlayerCenter(prev.player).y)]

NewBombs(es, p, id) ==
    LET fs == SelectSeq([i \in 1..Len(es) |-> i], LAMBDA i : i \in Firing(es))
    IN [k \in 1..Len(fs) |->
           NewBomb(id + k - 1, Center(es[fs[k]]).x, Center(es[fs[k]]).y,
                   PlayerCenter(p).x, PlayerCenter(p).y)]

Shoot ==
    /\ pc = "shoot"
    /\ IF ZeroAim(enemies, player)
       THEN /\ pc' = "crashed"
            /\ UNCHANGED <<enemies, bombs, nextId>>
       ELSE /\ pc' = "projhit"
            /\ \E draw \in [Firing(enemies) -> ShootResetDraws] :
                  enemies' = ShootTimers(enemies, draw)
            /\ bombs' = bombs \o NewBombs(enemies, player, nextId)
            /\ nextId' = nextId + Cardinality(Firing(enemies))
    /\ UNCHANGED <<last_ev, spawned_at,
                   running, keys, evn, quit, tick, last_fire, prev, spawn_timer, player,
                   projectiles, explosions>>

(* lines 337-355: projectile hits enemy. st = [ps, es, xs, score, id]: the groups *)
(* projectiles, enemies and explosions, player.score and the next sprite id        *)
(* a hit that leaves a dead enemy in the group *)
HitEnemyKeep(es, i) == [es EXCEPT ![i].hp = es[i].hp - 1]

(* a hit that takes 2 hp *)
HitEnemyTwice(es, i) ==
    IF es[i].hp - 2 <= 0 THEN RemoveAt(es, i) ELSE [es EXCEPT ![i].hp = es[i].hp - 2]

HitEnemy(es, i) ==
    IF es[i].hp - 1 <= 0 THEN RemoveAt(es, i) ELSE [es EXCEPT ![i].hp = es[i].hp - 1]

(* points for every hit *)
HitScoreEveryHit(es, i, score) == score + KILL_SCORE

HitScore(es, i, score) == IF es[i].hp - 1 <= 0 THEN score + KILL_SCORE ELSE score

ProjectileHit(proj, st) ==
    LET hit == FirstEnemyHit(ProjRect(proj), st.es)
    IN IF hit = 0 THEN st
       ELSE [ps |-> SelectSeq(st.ps, LAMBDA q : q.id # proj.id),
             es |-> HitEnemy(st.es, hit),
             xs |-> Append(st.xs, NewExplosion(st.id, Center(proj).x, Center(proj).y,
                                               proj.radius * 2, ProjColor(proj.element))),
             score |-> HitScore(st.es, hit, st.score),
             id |-> st.id + 1]

RECURSIVE ResolveProjectiles(_, _)
ResolveProjectiles(todo, st) ==
    IF todo = << >> THEN st
    ELSE CHOOSE r \in {ResolveProjectiles(Tail(todo), nxt) :
                            nxt \in {ProjectileHit(Head(todo), st)}} : TRUE

ProjHit ==
    /\ pc = "projhit"
    /\ pc' = "bombhit"
    /\ LET st == ResolveProjectiles(projectiles,
                    [ps |-> projectiles, es |-> enemies, xs |-> explosions,
                     score |-> player.score, id |-> nextId])
       IN /\ projectiles' = st.ps
          /\ enemies' = st.es
          /\ explosions' = st.xs
          /\ player' = [player EXCEPT !.score = st.score]
          /\ nextId' = st.id
    /\ UNCHANGED <<last_ev, spawned_at,
                   running, keys, evn, quit, tick, last_fire, prev, spawn_timer, bombs>>

(* a loop that goes on without lives *)
StillRunningAlways(lives, run) == run

(* `if player.lives <= 0: running = False` *)
StillRunning(lives, run) == IF lives <= 0 THEN FALSE ELSE run

(* a resolution without the break: every colliding bomb *)
BombsResolvedAll(rect, bs) ==
    SelectSeq([i \in 1..Len(bs) |-> i], LAMBDA i : CollideRect(rect, BombRect(bs[i])))

(* lines 358-373: the bombs that `for b in bombs: if b.rect.colliderect(...): ... break` *)
(* handles, as positions in the group: the first colliding one, if any                  *)
BombsResolved(rect, bs) ==
    IF FirstBombHit(rect, bs) = 0 THEN << >> ELSE << FirstBombHit(rect, bs) >>

(* lines 357-373: bombs hit player *)
BombHit ==
    /\ pc = "bombhit"
    /\ pc' = "enemyhit"
    /\ LET hit == BombsResolved(PlayerRect(player), bombs)
           lives == player.lives - Len(hit)
       IN /\ explosions' = explosions \o
                [k \in 1..Len(hit) |->
                    NewExplosion(nextId + k - 1, Center(bombs[hit[k]]).x,
                                 Center(bombs[hit[k]]).y, BOMB_EXPLOSION_RADIUS, NEON_YELLOW)]
          /\ nextId' = nextId + Len(hit)
          /\ bombs' = SelectSeq(bombs, LAMBDA b : \A k \in 1..Len(hit) : bombs[hit[k]].id # b.id)
          /\ player' = [player EXCEPT !.lives = lives]
          /\ running' = IF hit = << >> THEN running ELSE StillRunning(lives, running)
    /\ UNCHANGED <<last_ev, spawned_at,
                   keys, evn, quit, tick, last_fire, prev, spawn_timer, enemies, projectiles>>

(* lines 375-383: enemies collide with player; then the drawing, and back to `while` *)
EnemyHit ==
    /\ pc = "enemyhit"
    /\ pc' = "poll"
    /\ LET i == FirstEnemyHit(PlayerRect(player), enemies)
       IN IF i = 0
          THEN UNCHANGED <<running, nextId, player, enemies, explosions>>
          ELSE /\ player' = [player EXCEPT !.lives = player.lives - 1]
               /\ explosions' = Append(explosions,
                      NewExplosion(nextId, Center(enemies[i]).x, Center(enemies[i]).y,
                                   ENEMY_EXPLOSION_RADIUS, KindColor(enemies[i].kind)))
               /\ nextId' = nextId + 1
               /\ enemies' = RemoveAt(enemies, i)
               /\ running' = StillRunning(player.lives - 1, running)
    /\ UNCHANGED <<last_ev, spawned_at,
                   keys, evn, quit, tick, last_fire, prev, spawn_timer, projectiles, bombs>>

Next ==
    \/ Poll
    \/ Exit
    \/ Events
    \/ EndEvents
    \/ Spawn
    \/ Update
    \/ Shoot
    \/ ProjHit
    \/ BombHit
    \/ EnemyHit

----------------------------------------------------------------------------
(* States of the running game from which the runs start.  Each is built   *)
(* with the operators above: an enemy is a spawned enemy updated k times, *)
(* a projectile a shot of Player.fire updated k times, a bomb a bomb of   *)
(* the shooting phase updated k times.                                    *)

(* k times Move *)
MoveTimes(s, k) == [s EXCEPT !.px = s.px + k * s.vx, !.py = s.py + k * s.vy]

(* k times EnemyMove *)
EnemyMoveTimes(e, k) ==
    [e EXCEPT !.px = e.px + k * DivTrunc(e.dx * e.speed, Scale),
              !.py = e.py + k * DivTrunc(e.dy * e.speed, Scale)]

(* an enemy spawned at x0 and updated k times, with hp and shoot_timer as given *)
EnemyAfter(id, x0, kind, dir, k, hp, st) ==
    [EnemyMoveTimes(NewEnemy(id, x0, kind, dir, st), k) EXCEPT !.hp = hp]

(* shot number i of the burst fired with the player's centre at (cx, cy), updated k times *)
ShotAfter(id, cx, cy, el, i, k) ==
    LET v == BurstVelocities(el)[i]
    IN MoveTimes(NewProjectile(id, cx, cy - 10, v[1], v[2], el), k)

(* a bomb fired from (ex, ey) at the player's centre (tx, ty), updated k times *)
BombAfter(id, ex, ey, tx, ty, k) == MoveTimes(NewBomb(id, ex, ey, tx, ty), k)

(* the player's rectangle can be at (x, y): x moves in steps of 4 from 370 between the *)
(* clamps 10 and 730, y in steps of 4 from 469 or from a clamp, 60 or 488               *)
PlayerPosReachable(x, y) ==
    /\ x \in 10..(WIDTH - 10 - PLAYER_W) /\ x % 4 = 2
    /\ y \in 60..(HEIGHT - 10 - PLAYER_H) /\ y % 4 \in {0, 1}

Scene(x, y, lives, score, el, cd, st, es, ps, bs) ==
    [player |-> [x |-> x, y |-> y, lives |-> lives, score |-> score, element |-> el,
                 fire_cooldown |-> cd],
     enemies |-> es, projectiles |-> ps, bombs |-> bs, explosions |-> << >>,
     spawn_timer |-> st]

(* main, lines 267-277 *)
SceneConstruction ==
    [player |-> NewPlayer(WIDTH \div 2, HEIGHT - 80),
     enemies |-> << >>, projectiles |-> << >>, bombs |-> << >>, explosions |-> << >>,
     spawn_timer |-> 0]

(* The last lives: a Beginner enemy one update above the player's top edge, and a bomb *)
(* fired straight down at the player from (450, 100), one tick short of the player.   *)
SceneLastLife(lives) ==
    Scene(370, 469, lives, 10, "Air", 0, 30,
          << EnemyAfter(1, 450, "Beginner", <<0, 1000>>, 475, 1, 100) >>,
          << >>,
          << BombAfter(2, 450, 100, 450, 520, 80) >>)

(* Two bombs, fired from (250, 100) and from (450, 100) at the player's centre, both *)
(* one tick short of the player.                                                     *)
SceneTwoBombs(lives) ==
    Scene(370, 469, lives, 0, "Fire", 0, 30,
          << >>,
          << >>,
          << BombAfter(1, 250, 100, 450, 520, 88), BombAfter(2, 450, 100, 450, 520, 80) >>)

(* A Water burst fired 10 iterations ago, one tick short of a Mid enemy with hp left, *)
(* beside a Hard enemy about to shoot.                                                *)
SceneGallery(hp) ==
    Scene(370, 469, 3, 0, "Water", 4, 12,
          << EnemyAfter(1, 480, "Hard", <<0, 1000>>, 430, 3, 1),
             EnemyAfter(2, 450, "Mid", <<0, 1000>>, 320, hp, 77) >>,
          << ShotAfter(3, 450, 520, "Water", 1, 20), ShotAfter(4, 450, 520, "Water", 2, 20),
             ShotAfter(5, 450, 520, "Water", 3, 20) >>,
          << >>)

(* The player at the top of its range.  A shot of element el, fired on the way up, is *)
(* at the top edge: an Air shot fired 6 iterations ago from centre height 111, a Fire  *)
(* shot fired 4 iterations ago from 124, or a Water burst fired 8 iterations ago from  *)
(* 112.  A Hard enemy passed the player on the left and, 45 iterations ago, fired a    *)
(* bomb up at the player, who has moved right since; the bomb is at the top edge.      *)
TopShots(el) ==
    CASE el = "Air" -> << ShotAfter(2, 370, 111, "Air", 1, 12) >>
      [] el = "Fire" -> << ShotAfter(2, 370, 124, "Fire", 1, 8) >>
      [] el = "Water" -> << ShotAfter(2, 370, 112, "Water", 1, 16),
                            ShotAfter(3, 370, 112, "Water", 2, 16),
                            ShotAfter(4, 370, 112, "Water", 3, 16) >>

TopCooldown(el) == CASE el = "Air" -> 8 [] el = "Fire" -> 10 [] el = "Water" -> 6

SceneTopEdge(el) ==
    Scene(290, 60, 2, 10, el, TopCooldown(el), 25,
          << EnemyAfter(1, 200, "Hard", <<0, 1000>>, 512, 3, 20) >>,
          TopShots(el),
          << BombAfter(5, 200, 400, 210, 111, 90) >>)

(* A Beginner enemy about to leave through the bottom edge, a bomb that missed the *)
(* player about to leave through it too, and an Air shot fired 11 iterations ago.  *)
SceneBottomEdge ==
    Scene(450, 469, 3, 10, "Air", 2, 20,
          << EnemyAfter(1, 100, "Beginner", <<0, 1000>>, 653, 1, 64) >>,
          << ShotAfter(2, 530, 520, "Air", 1, 24) >>,
          << BombAfter(3, 698, 100, 698, 520, 110) >>)

(* A Hard enemy with hp left and, beside it, a younger Beginner enemy, both one update  *)
(* above the player's top edge, their boxes overlapping; the Air shot fired in the last *)
(* iteration is one tick short of both.                                                 *)
ScenePair(hp) ==
    Scene(370, 469, 3, 0, "Air", 13, 2,
          << EnemyAfter(1, 450, "Hard", <<0, 1000>>, 528, hp, 77),
             EnemyAfter(2, 460, "Beginner", <<0, 1000>>, 475, 1, 100) >>,
          << ShotAfter(3, 450, 520, "Air", 1, 2) >>,
          << >>)

(* The player alone in a corner of its range *)
SceneCorner(x, y) == Scene(x, y, 3, 0, "Air", 0, 20, << >>, << >>, << >>)

(* As ScenePair, with the Hard enemy unhurt and a Fire shot fired in the last iteration *)
SceneFireShot ==
    Scene(370, 469, 3, 0, "Fire", 13, 30,
          << EnemyAfter(1, 450, "Hard", <<0, 1000>>, 528, 3, 77),
             EnemyAfter(2, 460, "Beginner", <<0, 1000>>, 475, 1, 100) >>,
          << ShotAfter(3, 450, 520, "Fire", 1, 2) >>,
          << >>)

(* A Beginner enemy alone, one update above the player's top edge, and the Air shot *)
(* fired in the last iteration one tick short of it                                 *)
SceneLone ==
    Scene(370, 469, 2, 0, "Air", 13, 30,
          << EnemyAfter(1, 450, "Beginner", <<0, 1000>>, 475, 1, 100) >>,
          << ShotAfter(2, 450, 520, "Air", 1, 2) >>,
          << >>)

AllScenes ==
    {SceneConstruction, SceneLastLife(1), SceneLastLife(3), SceneTwoBombs(2),
     SceneTwoBombs(3), SceneGallery(1), SceneGallery(2), SceneBottomEdge}
    \cup {SceneTopEdge(el) : el \in Elements}
    \cup {ScenePair(1), ScenePair(2), SceneFireShot, SceneLone}
    \cup {SceneCorner(10, 60), SceneCorner(WIDTH - 10 - PLAYER_W, HEIGHT - 10 - PLAYER_H)}

Scenes == {sc \in AllScenes : PlayerPosReachable(sc.player.x, sc.player.y)}

(* the calls of spawn_enemy() before the scene: none at construction, where the timer is *)
(* 0; otherwise the last one, t - spawn_timer iterations ago, for the draw t it made,    *)
(* taken to be 18 where the timer allows it and 42 where it does not                     *)
SpawnedBefore(st) ==
    IF st <= 0 THEN << >>
    ELSE IF st <= SPAWN_MIN THEN << st - SPAWN_MIN >> ELSE << st - SPAWN_MAX >>

SceneInit(sc) ==
    /\ pc = "poll"
    /\ running = TRUE
    /\ keys = NoKeys
    /\ evn = 0
    /\ quit = FALSE
    /\ tick = 0
    /\ last_ev = "NONE"
    /\ spawned_at = SpawnedBefore(sc.spawn_timer)
    /\ last_fire = sc.player.fire_cooldown - (FIRE_RATE - 1)
    /\ prev = [player |-> sc.player, enemies |-> sc.enemies,
               projectiles |-> sc.projectiles, bombs |-> sc.bombs,
               explosions |-> sc.explosions, spawn_timer |-> sc.spawn_timer,
               last_fire |-> sc.player.fire_cooldown - (FIRE_RATE - 1)]
    /\ nextId = 1 + MaxOf(Ids(sc.enemies) \cup Ids(sc.projectiles) \cup Ids(sc.bombs))
    /\ spawn_timer = sc.spawn_timer
    /\ player = sc.player
    /\ enemies = sc.enemies
    /\ projectiles = sc.projectiles
    /\ bombs = sc.bombs
    /\ explosions = sc.explosions

Init == \E sc \in Scenes : SceneInit(sc)

Spec == Init /\ [][Next]_vars

----------------------------------------------------------------------------
(* Long runs: no key is held, no event arrives, and every spawn makes the same draws, *)
(* a Beginner enemy at x = 860 swaying right, the next spawn 42 iterations later.     *)

(* `while running:` is true, with get_pressed() all False and an empty event list *)
PollFall ==
    /\ pc = "poll" /\ running /\ tick < FallTicks
    /\ keys' = NoKeys
    /\ tick' = tick + 1
    /\ prev' = Snapshot
    /\ pc' = "events"
    /\ UNCHANGED <<last_ev, spawned_at, running, evn, quit, nextId, last_fire, spawn_timer,
                   player, enemies, projectiles, bombs, explosions>>

(* lines 313-319 with these draws *)
SpawnFall ==
    /\ Spawn
    /\ enemies' # enemies =>
          /\ spawn_timer' = SPAWN_MAX
          /\ enemies'[Len(enemies')].kind = "Beginner"

NextFall ==
    \/ PollFall
    \/ Exit
    \/ EndEvents
    \/ SpawnFall
    \/ Update
    \/ Shoot
    \/ ProjHit
    \/ BombHit
    \/ EnemyHit

FallScenes ==
    {SceneConstruction, SceneLastLife(1), SceneLastLife(3), SceneGallery(1), SceneBottomEdge,
     ScenePair(2)}

InitFall == \E sc \in FallScenes : SceneInit(sc)

(* the loop runs on by itself: a step that can be taken is taken *)
SpecFall == InitFall /\ [][NextFall]_vars /\ WF_vars(NextFall)

----------------------------------------------------------------------------

(* Properties *)

Range(s) == {s[i] : i \in 1..Len(s)}

RECURSIVE SumHp(_)
SumHp(es) == IF es = << >> THEN 0 ELSE Head(es).hp + SumHp(Tail(es))

NoDuplicates(s) == Cardinality(Ids(s)) = Len(s)

(* a rectangle that lies entirely outside the playfield *)
Outside(r) == r.b < 0 \/ r.t > HEIGHT \/ r.l > WIDTH \/ r.r < 0

(* a position with y < 0, y > HEIGHT or x outside [0, WIDTH] *)
PositionOut(s) ==
    s.py < 0 \/ s.py > HEIGHT * Scale \/ s.px < 0 \/ s.px > WIDTH * Scale

(* C1: player.lives is in [0, 3] in every state and never increases from one tick *)
(* to the next.                                                                    *)
C1_LivesInRange ==
    /\ player.lives \in 0..PLAYER_LIVES
    /\ player.lives <= prev.player.lives

(* C2: the score never decreases; the projectile resolution of a tick adds exactly 5 *)
(* per enemy it removes, every enemy it removes had hp > 0 and was overlapped by at  *)
(* least hp of the projectiles it removes, and no other step changes the score.      *)
C2_ScoreStep ==
    LET gone == {e \in Range(enemies) : e.id \notin Ids(enemies')}
        used == {q \in Range(projectiles) : q.id \notin Ids(projectiles')}
    IN IF pc = "projhit"
       THEN /\ player'.score = player.score + KILL_SCORE * Cardinality(gone)
            /\ \A e \in gone :
                  /\ e.hp > 0
                  /\ Cardinality({q \in used : CollideRect(ProjRect(q), EnemyRect(e))}) >= e.hp
       ELSE player'.score = player.score

C2_Score == [][C2_ScoreStep]_vars /\ [](player.score >= prev.player.score /\ player.score >= 0)

C2_Witness == pc = "bombhit" /\ player.score = prev.player.score + KILL_SCORE

(* C3: with lives <= 0 at the end of a tick the loop is left and nothing changes any *)
(* more; with lives > 0 and no quit requested the loop goes on.                      *)
C3_GameOver ==
    /\ []((pc = "poll" /\ player.lives <= 0) => ~running)
    /\ []((pc = "poll" /\ player.lives > 0 /\ ~quit) => running)
    /\ [][(pc = "poll" /\ ~running) => (pc' = "done" /\ Game' = Game)]_vars
    /\ [][pc # "done"]_vars

C3_Witness == pc = "done" /\ player.lives <= 0 /\ ~quit

(* C4: the projectile resolution of a tick removes each projectile and each enemy at *)
(* most once: one explosion per projectile removed, one hp per projectile removed,   *)
(* an enemy removed exactly when its hp is used up, 5 points per enemy removed.      *)
C4_ResolveStep ==
    LET gone == {e \in Range(enemies) : e.id \notin Ids(enemies')}
        used == {q \in Range(projectiles) : q.id \notin Ids(projectiles')}
    IN pc = "projhit" =>
         /\ Len(projectiles') = Len(projectiles) - Cardinality(used)
         /\ Len(enemies') = Len(enemies) - Cardinality(gone)
         /\ NoDuplicates(projectiles') /\ NoDuplicates(enemies')
         /\ Len(explosions') = Len(explosions) + Cardinality(used)
         /\ SumHp(enemies) - SumHp(enemies') = Cardinality(used)
         /\ \A e \in Range(enemies') : e.hp > 0
         /\ player'.score = player.score + KILL_SCORE * Cardinality(gone)
         /\ \A q \in Range(projectiles') :
               \A e \in Range(enemies') : ~CollideRect(ProjRect(q), EnemyRect(e))

C4_NoDoubleHit == [][C4_ResolveStep]_vars

(* two projectiles of this tick's resolution were used on one enemy with hp 2 *)
C4_Witness ==
    /\ pc = "bombhit"
    /\ \E e \in Range(prev.enemies) : e.hp = 2 /\ e.id \notin Ids(enemies)
    /\ Len(projectiles) + 2 <= Len(prev.projectiles)
    /\ player.score = prev.player.score + KILL_SCORE

(* C5: the bomb resolution of a tick handles exactly one bomb if any overlaps the *)
(* player, the first in the group's order: it is removed, one explosion is added, *)
(* lives drops by 1, and every other bomb stays in the group.                     *)
C5_BombStep ==
    LET over == {i \in 1..Len(bombs) : CollideRect(BombRect(bombs[i]), PlayerRect(player))}
    IN pc = "bombhit" =>
         IF over = {}
         THEN bombs' = bombs /\ player' = player /\ explosions' = explosions
         ELSE /\ Len(bombs') = Len(bombs) - 1
              /\ \A i \in 1..Len(bombs) :
                    (bombs[i] \in Range(bombs')) <=> (\E j \in over : j < i) \/ i \notin over
              /\ player'.lives = player.lives - 1
              /\ Len(explosions') = Len(explosions) + 1

C5_OneBombPerTick == [][C5_BombStep]_vars

(* a bomb was resolved and another one still overlaps the player *)
C5_Witness ==
    /\ pc = "enemyhit"
    /\ player.lives = prev.player.lives - 1
    /\ \E b \in Range(bombs) : CollideRect(BombRect(b), PlayerRect(player))

(* C6: a fire request during the cooldown changes nothing; a successful one sets the *)
(* cooldown to 14; the cooldown drops by 1 per tick down to 0; successful requests   *)
(* are at least 14 ticks apart, and a request 14 ticks after a successful one        *)
(* succeeds.                                                                         *)
C6_FireStep ==
    /\ (pc = "events" /\ pc' = "events" /\ player.fire_cooldown > 0) =>
          /\ projectiles' = projectiles
          /\ player'.fire_cooldown = player.fire_cooldown
    /\ (pc = "events" /\ projectiles' # projectiles) =>
          /\ player.fire_cooldown = 0
          /\ player'.fire_cooldown = FIRE_RATE
          /\ tick - last_fire >= FIRE_RATE
          /\ last_fire' = tick
    /\ pc = "update" =>
          player'.fire_cooldown = Max(0, player.fire_cooldown - 1)
    /\ pc \notin {"events", "update"} => player'.fire_cooldown = player.fire_cooldown

C6_FireGate ==
    /\ [][C6_FireStep]_vars
    /\ []((pc = "events" /\ tick - last_fire >= FIRE_RATE) =>
             (player.fire_cooldown = 0 /\ FireShots(player, nextId) # << >>))

(* a request succeeded exactly 14 ticks after the last successful one *)
C6_Witness ==
    pc = "events" /\ last_fire = tick /\ tick - prev.last_fire = FIRE_RATE

(* C7: in a tick every projectile, bomb and enemy that stays live moves by exactly *)
(* one times its velocity.                                                         *)
MovedOnce(now, before) ==
    \A s \in Range(now) : \A q \in Range(before) :
        s.id = q.id => s.px = q.px + q.vx /\ s.py = q.py + q.vy

C7_OneStepPerTick ==
    (pc = "poll" /\ tick > 0) => MovedOnce(projectiles, prev.projectiles) /\ MovedOnce(bombs, prev.bombs)

(* C8: at the end of a tick no live bomb lies entirely outside the playfield *)
C8_BombsInside == pc = "poll" => \A b \in Range(bombs) : ~Outside(BombRect(b))

(* C9: a projectile whose position is off the playfield at the end of a tick is no *)
(* longer live at the end of the following tick.                                   *)
C9_Cleanup ==
    (pc = "poll" /\ tick > 0) =>
       \A q \in Range(prev.projectiles) : PositionOut(q) => q.id \notin Ids(projectiles)

C9_Witness ==
    /\ pc = "poll" /\ tick > 0
    /\ \E q \in Range(prev.projectiles) :
          q.element = "Water" /\ PositionOut(q) /\ q.id \notin Ids(projectiles)

(* C10: once a quit signal has been handled nothing of the game state changes *)
C10_QuitFreezes == [][quit => Game' = Game]_vars

(* C11: a successful fire() adds, at the end of the group, a burst determined by the   *)
(* element the player has at that moment, every shot created 10 above the player's     *)
(* centre and carrying that element: Air one shot (0, -8); Water three shots           *)
(* (sin(-0.15)*6, -6), (0, -6), (sin(0.15)*6, -6); Fire one shot (0, -12).             *)
C11_BurstStep ==
    (pc = "events" /\ projectiles' # projectiles) =>
        LET n == Len(projectiles)
            new == SubSeq(projectiles', n + 1, Len(projectiles'))
            c == PlayerCenter(player)
            el == player.element
        IN /\ SubSeq(projectiles', 1, n) = projectiles
           /\ \A i \in 1..Len(new) :
                 /\ new[i].element = el
                 /\ new[i].px = c.x * Scale /\ new[i].py = (c.y - 10) * Scale
                 /\ new[i].id \notin Ids(projectiles)
           /\ el = "Air" => Len(new) = 1 /\ new[1].vx = 0 /\ new[1].vy = -8 * Scale
           /\ el = "Fire" => Len(new) = 1 /\ new[1].vx = 0 /\ new[1].vy = -12 * Scale
           /\ el = "Water" =>
                 /\ Len(new) = 3
                 /\ new[1].vx = -897 /\ new[2].vx = 0 /\ new[3].vx = 897
                 /\ \A i \in 1..3 : new[i].vy = -6 * Scale

C11_Burst == [][C11_BurstStep]_vars

(* the element was switched to Water earlier in this tick and the burst is a Water one *)
C11_Witness ==
    /\ pc = "events" /\ last_fire = tick
    /\ prev.player.element # "Water" /\ player.element = "Water"
    /\ Len(projectiles) >= 3
    /\ \A i \in (Len(projectiles) - 2)..Len(projectiles) :
          projectiles[i].element = "Water" /\ projectiles[i].id \notin Ids(prev.projectiles)

(* the sprites of group `before` that are still in group `now` are in the same order *)
(* there, and the sprites added since come after all of them                         *)
KeepsOrder(now, before) ==
    /\ NoDuplicates(now)
    /\ \A i, j \in 1..Len(now) :
          (i < j /\ now[j].id \in Ids(before)) =>
              /\ now[i].id \in Ids(before)
              /\ \E a, b \in 1..Len(before) :
                    a < b /\ before[a].id = now[i].id /\ before[b].id = now[j].id

(* the simulation state two runs are compared on *)
Sim == [game |-> Game, running |-> running]

(* the simulation state after handling an event of kind ev *)
SimAfterEvent(ev) ==
    LET p1 == IF ev = "SPACE" THEN FirePlayer(player) ELSE player
        shots == IF ev = "SPACE" THEN FireShots(player, nextId) ELSE << >>
    IN [game |-> [Game EXCEPT !.player = [p1 EXCEPT !.element = ElementAfter(ev, p1.element)],
                              !.projectiles = projectiles \o shots],
        running |-> IF ev \in {"QUIT", "ESCAPE"} THEN FALSE ELSE running]

(* the simulation state after the spawn logic, given the draws t, x, kind, dir, st *)
SimAfterSpawn(t, x, kind, dir, st) ==
    IF spawn_timer - 1 > 0
    THEN [game |-> [Game EXCEPT !.spawn_timer = spawn_timer - 1], running |-> running]
    ELSE [game |-> [Game EXCEPT !.spawn_timer = t,
                                !.enemies = Append(enemies, NewEnemy(nextId, x, kind, dir, st))],
          running |-> running]

(* the simulation state after the update calls, given the keys held *)
SimAfterUpdate(k) ==
    [game |-> [Game EXCEPT !.player = PlayerUpdate(player, k),
                           !.enemies = EnemiesUpdate(enemies),
                           !.projectiles = ProjectilesTick(projectiles),
                           !.bombs = BombsTick(bombs),
                           !.explosions = ExplosionsUpdate(explosions)],
     running |-> running]

(* the simulation state after the enemy shooting, given the draws of the firing enemies *)
SimAfterShoot(draw) ==
    [game |-> [Game EXCEPT !.enemies = ShootTimers(enemies, draw),
                           !.bombs = bombs \o NewBombs(enemies, player, nextId)],
     running |-> running]

(* the simulation state after the projectile resolution: the projectiles taken in the *)
(* order of the group                                                                  *)
SimAfterProjHit ==
    LET st == ResolveProjectiles(projectiles,
                  [ps |-> projectiles, es |-> enemies, xs |-> explosions,
                   score |-> player.score, id |-> nextId])
    IN [game |-> [Game EXCEPT !.projectiles = st.ps, !.enemies = st.es,
                              !.explosions = st.xs, !.player.score = st.score],
        running |-> running]

(* the simulation state after the bomb resolution *)
SimAfterBombHit ==
    LET over == {i \in 1..Len(bombs) : CollideRect(BombRect(bombs[i]), PlayerRect(player))}
        i == CHOOSE i \in over : \A j \in over : i <= j
    IN IF over = {} THEN Sim
       ELSE [game |-> [Game EXCEPT
                         !.bombs = RemoveAt(bombs, i),
                         !.player.lives = player.lives - 1,
                         !.explosions = Append(explosions,
                             NewExplosion(nextId, Center(bombs[i]).x, Center(bombs[i]).y,
                                          BOMB_EXPLOSION_RADIUS, NEON_YELLOW))],
             running |-> running /\ player.lives - 1 > 0]

(* the simulation state after the enemy resolution *)
SimAfterEnemyHit ==
    LET over == {i \in 1..Len(enemies) : CollideRect(PlayerRect(player), EnemyRect(enemies[i]))}
        i == CHOOSE i \in over : \A j \in over : i <= j
    IN IF over = {} THEN Sim
       ELSE [game |-> [Game EXCEPT
                         !.enemies = RemoveAt(enemies, i),
                         !.player.lives = player.lives - 1,
                         !.explosions = Append(explosions,
                             NewExplosion(nextId, Center(enemies[i]).x, Center(enemies[i]).y,
                                          ENEMY_EXPLOSION_RADIUS, KindColor(enemies[i].kind)))],
             running |-> running /\ player.lives - 1 > 0]

(* C12: the simulation state after a step is a function of the state before it and of  *)
(* the input and the random draws the step reads, so two runs with the same keys,       *)
(* events and draws agree after every tick; the steps that read neither leave one       *)
(* successor state; groups keep insertion order, and a collision between one sprite and *)
(* several of a group is resolved for the first of the group.                           *)
C12_Function ==
    CASE pc = "poll" -> Sim' = Sim
      [] pc = "events" ->
            IF pc' = "spawn" THEN Sim' = Sim ELSE Sim' = SimAfterEvent(last_ev')
      [] pc = "spawn" ->
            LET e == enemies'[Len(enemies')]
            IN IF spawn_timer - 1 > 0
               THEN Sim' = SimAfterSpawn(0, 0, "Beginner", <<0, 0>>, 0)
               ELSE Sim' = SimAfterSpawn(spawn_timer', Trunc(e.px), e.kind, <<e.dx, e.dy>>,
                                         e.shoot_timer)
      [] pc = "update" -> Sim' = SimAfterUpdate(keys)
      [] pc = "shoot" ->
            IF pc' = "crashed" THEN Sim' = Sim
            ELSE Sim' = SimAfterShoot([i \in Firing(enemies) |-> enemies'[i].shoot_timer])
      [] pc = "projhit" -> Sim' = SimAfterProjHit
      [] pc = "bombhit" -> Sim' = SimAfterBombHit
      [] pc = "enemyhit" -> Sim' = SimAfterEnemyHit
      [] OTHER -> Sim' = Sim

C12_TieBreak ==
    /\ pc = "projhit" =>
          \A i \in 1..Len(projectiles) : \A k \in 1..Len(enemies) :
             ( /\ CollideRect(ProjRect(projectiles[i]), EnemyRect(enemies[k]))
               /\ \A j \in 1..(i - 1) : \A m \in 1..Len(enemies) :
                     ~CollideRect(ProjRect(projectiles[j]), EnemyRect(enemies[m]))
               /\ \A m \in 1..(k - 1) :
                     ~CollideRect(ProjRect(projectiles[i]), EnemyRect(enemies[m])) )
             => \/ enemies[k].id \notin Ids(enemies')
                \/ \E e \in Range(enemies') : e.id = enemies[k].id /\ e.hp < enemies[k].hp
    /\ pc = "bombhit" =>
          \A i \in 1..Len(bombs) :
             ( /\ CollideRect(BombRect(bombs[i]), PlayerRect(player))
               /\ \A j \in 1..(i - 1) : ~CollideRect(BombRect(bombs[j]), PlayerRect(player)) )
             => bombs' = RemoveAt(bombs, i)
    /\ pc = "enemyhit" =>
          \A i \in 1..Len(enemies) :
             ( /\ CollideRect(PlayerRect(player), EnemyRect(enemies[i]))
               /\ \A j \in 1..(i - 1) : ~CollideRect(PlayerRect(player), EnemyRect(enemies[j])) )
             => enemies' = RemoveAt(enemies, i)

C12_Order ==
    /\ KeepsOrder(enemies', enemies) /\ KeepsOrder(projectiles', projectiles)
    /\ KeepsOrder(bombs', bombs) /\ KeepsOrder(explosions', explosions)

C13_SpawnStep ==
    IF pc = "spawn"
    THEN IF spawn_timer - 1 <= 0
         THEN LET e == enemies'[Len(enemies')]
              IN /\ enemies' = Append(enemies, e)
                 /\ e.id \notin Ids(enemies)
                 /\ e.py = -20 * Scale
                 /\ e.px \in {x * Scale : x \in 40..860}
                 /\ e.kind \in {"Beginner", "Mid", "Hard"}
                 /\ spawn_timer' \in 18..42
                 /\ spawned_at' = Append(spawned_at, tick)
                 /\ IF spawned_at = << >> THEN tick = 1
                    ELSE tick - spawned_at[Len(spawned_at)] \in 18..42
         ELSE /\ enemies' = enemies
              /\ spawn_timer' = spawn_timer - 1
              /\ spawned_at' = spawned_at
    ELSE /\ Ids(enemies') \subseteq Ids(enemies)
         /\ spawn_timer' = spawn_timer
         /\ spawned_at' = spawned_at

C13_Spawner ==
    /\ [][C13_SpawnStep]_vars
    /\ []((tick >= 1 /\ pc \notin {"events", "spawn"}) =>
             (spawned_at # << >> /\ spawn_timer \in 1..42))
    /\ [](\A i \in 2..Len(spawned_at) : spawned_at[i] - spawned_at[i - 1] \in 18..42)

(* an enemy was spawned 18 ticks after the one before *)
C13_Witness ==
    /\ pc = "update" /\ Len(spawned_at) >= 2
    /\ spawned_at[Len(spawned_at)] = tick
    /\ tick - spawned_at[Len(spawned_at) - 1] = 18
    /\ Len(enemies) >= 1 /\ enemies[Len(enemies)].py = -20 * Scale

(* the enemy of group es with the identity id *)
EnemyOf(es, id) == CHOOSE e \in Range(es) : e.id = id

(* C14: the shooting of a tick adds one bomb for each Hard enemy of the group whose     *)
(* shoot timer, lowered by 1, is <= 0, and resets that timer to a value in [60, 140];   *)
(* the other Hard enemies' timers go down by 1; Beginner and Mid enemies create no bomb *)
(* and keep their timers; no other step adds a bomb or changes a shoot timer.           *)
C14_ShootStep ==
    IF pc = "shoot" /\ pc' = "projhit"
    THEN LET new == SubSeq(bombs', Len(bombs) + 1, Len(bombs'))
             due == {e \in Range(enemies) : e.kind = "Hard" /\ e.shoot_timer - 1 <= 0}
         IN /\ SubSeq(bombs', 1, Len(bombs)) = bombs
            /\ Ids(enemies') = Ids(enemies)
            /\ Len(new) = Cardinality(due)
            /\ \A e \in due :
                  /\ Cardinality({i \in 1..Len(new) :
                        new[i].px = Center(e).x * Scale /\ new[i].py = Center(e).y * Scale}) = 1
                  /\ EnemyOf(enemies', e.id).shoot_timer \in 60..140
            /\ \A e \in Range(enemies) \ due :
                  EnemyOf(enemies', e.id).shoot_timer =
                      IF e.kind = "Hard" THEN e.shoot_timer - 1 ELSE e.shoot_timer
    ELSE /\ Ids(bombs') \subseteq Ids(bombs)
         /\ \A e \in Range(enemies) :
               e.id \in Ids(enemies') => EnemyOf(enemies', e.id).shoot_timer = e.shoot_timer

C14_BombsByHard ==
    /\ [][C14_ShootStep]_vars
    /\ [](\A e \in Range(enemies) : e.shoot_timer \in 1..140)

(* a Hard enemy fired this tick; a Mid enemy beside it did not *)
C14_Witness ==
    /\ pc = "projhit"
    /\ Len(bombs) = Len(prev.bombs) + 1
    /\ \E e \in Range(enemies) : e.kind = "Hard" /\ e.shoot_timer \in 60..140
    /\ \E e \in Range(enemies) : e.kind = "Mid"

(* the velocity (vx, vy), in 1/Scale pixel, has length 4.5 and points from (fx, fy) to *)
(* (tx, ty), up to the rounding of its components                                      *)
AimedAt(vx, vy, fx, fy, tx, ty) ==
    LET dx == tx - fx
        dy == ty - fy
        cross == vx * dy - vy * dx
        abs(v) == IF v >= 0 THEN v ELSE -v
    IN /\ vx * vx + vy * vy \in (4495 * 4495)..(4505 * 4505)
       /\ vx * dx + vy * dy > 0
       /\ abs(cross) <= 5 * (abs(dx) + abs(dy))

(* C15: a bomb's velocity is set when it is created, to length 4.5 along the line from  *)
(* the firing enemy's centre to the player's centre as it is after the player's update  *)
(* of that tick, and never changes afterwards; an enemy's direction and speed never     *)
(* change after its spawn.                                                              *)
C15_Step ==
    /\ \A b \in Range(bombs) : \A c \in Range(bombs') :
          c.id = b.id => c.vx = b.vx /\ c.vy = b.vy
    /\ \A e \in Range(enemies) : \A f \in Range(enemies') :
          f.id = e.id => f.dx = e.dx /\ f.dy = e.dy /\ f.speed = e.speed /\ f.kind = e.kind
    /\ (pc = "shoot" /\ pc' = "projhit") =>
          \A c \in Range(bombs') :
             c.id \notin Ids(bombs) =>
                 AimedAt(c.vx, c.vy, Trunc(c.px), Trunc(c.py),
                         PlayerCenter(player).x, PlayerCenter(player).y)
    /\ (pc = "spawn" /\ enemies' # enemies) =>
          LET e == enemies'[Len(enemies')]
          IN /\ e.speed = (CASE e.kind = "Beginner" -> 1000 [] e.kind = "Mid" -> 1200
                             [] e.kind = "Hard" -> 900)
             /\ e.dy > 0
             /\ e.dx * e.dx + e.dy * e.dy = Scale * Scale

C15_Ballistic == [][C15_Step]_vars

(* a bomb was created in a tick in which the player moved: it is aimed at where the *)
(* player is after the move, not at where the player was before it                  *)
C15_Witness ==
    /\ pc = "projhit"
    /\ player.x # prev.player.x /\ player.y # prev.player.y
    /\ \E b \in Range(bombs) :
          /\ b.id \notin Ids(prev.bombs)
          /\ AimedAt(b.vx, b.vy, Trunc(b.px), Trunc(b.py),
                     PlayerCenter(player).x, PlayerCenter(player).y)
          /\ ~AimedAt(b.vx, b.vy, Trunc(b.px), Trunc(b.py),
                      PlayerCenter(prev.player).x, PlayerCenter(prev.player).y)

(* C16: an enemy is spawned with hp 1, 2 or 3 for Beginner, Mid or Hard; only the      *)
(* projectile resolution changes hp; there, every projectile removed takes exactly 1   *)
(* hp from one enemy its box overlaps, whatever its element, an enemy leaves the group *)
(* exactly when its hp is used up, and the score rises by 5 for each such enemy and by *)
(* nothing for a hit that leaves hp; every enemy of the group has hp > 0.              *)
C16_HpStep ==
    LET used == {q \in Range(projectiles) : q.id \notin Ids(projectiles')}
        gone == {e \in Range(enemies) : e.id \notin Ids(enemies')}
        loss(e) == IF e \in gone THEN e.hp ELSE e.hp - EnemyOf(enemies', e.id).hp
        over(e) == {q \in used : CollideRect(ProjRect(q), EnemyRect(e))}
    IN /\ (pc = "spawn" /\ enemies' # enemies) =>
             LET e == enemies'[Len(enemies')]
             IN e.hp = (CASE e.kind = "Beginner" -> 1 [] e.kind = "Mid" -> 2
                          [] e.kind = "Hard" -> 3)
       /\ pc = "projhit" =>
             /\ \A e \in Range(enemies) : loss(e) \in 0..Cardinality(over(e))
             /\ SumHp(enemies) - SumHp(enemies') = Cardinality(used)
             /\ \A q \in used : \E e \in Range(enemies) : loss(e) > 0 /\ q \in over(e)
             /\ player'.score = player.score + 5 * Cardinality(gone)
       /\ pc \notin {"projhit", "spawn"} =>
             \A e \in Range(enemies') : e.hp = EnemyOf(enemies, e.id).hp

C16_HpModel ==
    /\ [][C16_HpStep]_vars
    /\ [](\A e \in Range(enemies) :
             e.hp > 0 /\ e.hp <= (CASE e.kind = "Beginner" -> 1 [] e.kind = "Mid" -> 2
                                    [] e.kind = "Hard" -> 3))

(* a Fire shot took 1 hp from an unhurt Hard enemy and no points were awarded *)
C16_Witness ==
    /\ pc = "bombhit"
    /\ player.score = prev.player.score
    /\ \E q \in Range(prev.projectiles) : q.element = "Fire" /\ q.id \notin Ids(projectiles)
    /\ \E e \in Range(enemies) : \E f \in Range(prev.enemies) :
          e.id = f.id /\ e.kind = "Hard" /\ f.hp = 3 /\ e.hp = 2

(* C17: the enemy resolution of a tick comes after the projectile and the bomb         *)
(* resolution; if an enemy of the group overlaps the player then lives drops by 1, one *)
(* overlapping enemy leaves the group whatever hp it has, one explosion is added, the  *)
(* score stays, and every other enemy, overlapping or not, stays; otherwise nothing    *)
(* changes.  An enemy removed by the projectile resolution is not in the group.        *)
C17_EnemyStep ==
    LET over == {e \in Range(enemies) : CollideRect(PlayerRect(player), EnemyRect(e))}
        gone == {e \in Range(enemies) : e.id \notin Ids(enemies')}
    IN /\ pc = "projhit" => pc' = "bombhit"
       /\ pc = "bombhit" => pc' = "enemyhit"
       /\ pc = "enemyhit" =>
             /\ projectiles' = projectiles /\ bombs' = bombs
             /\ player'.score = player.score
             /\ Range(enemies') = Range(enemies) \ gone
             /\ IF over = {}
                THEN /\ gone = {} /\ player'.lives = player.lives
                     /\ explosions' = explosions /\ running' = running
                ELSE /\ Cardinality(gone) = 1 /\ gone \subseteq over
                     /\ player'.lives = player.lives - 1
                     /\ Len(explosions') = Len(explosions) + 1
                     /\ SubSeq(explosions', 1, Len(explosions)) = explosions
                     /\ running' = (running /\ player'.lives > 0)

C17_WitnessKilled ==
    /\ pc = "poll" /\ tick = 1
    /\ Len(prev.enemies) = 1 /\ enemies = << >>
    /\ player.score = prev.player.score + 5
    /\ player.lives = prev.player.lives
    /\ CollideRect(PlayerRect(player), EnemyRect(EnemyMove(prev.enemies[1])))

C18_MoveStep ==
    LET dx == player'.x - player.x
        dy == player'.y - player.y
    IN IF pc = "update"
       THEN /\ dx \in -4..4 /\ dy \in -4..4
            /\ (~keys.left /\ ~keys.right) => dx = 0
            /\ (~keys.up /\ ~keys.down) => dy = 0
            /\ (keys.right /\ player.x + 4 <= 730) => dx = 4
            /\ (keys.left /\ ~keys.right /\ player.x - 4 >= 10) => dx = -4
            /\ (keys.down /\ player.y + 4 <= 488) => dy = 4
            /\ (keys.up /\ ~keys.down /\ player.y - 4 >= 60) => dy = -4
       ELSE dx = 0 /\ dy = 0

C18_Clamp ==
    /\ [][C18_MoveStep]_vars
    /\ [](player.x \in 10..730 /\ player.y \in 60..488)

(* left and up are held with the player in the top left corner of its range: it stays *)
C18_Witness ==
    /\ pc = "shoot" /\ keys.left /\ keys.up /\ ~keys.right /\ ~keys.down
    /\ prev.player.x = 10 /\ prev.player.y = 60
    /\ player.x = 10 /\ player.y = 60

(* C19: player.element is Air, Water or Fire, and Air at construction; the keys 1, 2, 3 *)
(* set Air, Water, Fire; E moves one step forward and Q one step back in the order Air, *)
(* Water, Fire, with wrap-around; an element key changes nothing but the element;       *)
(* another key changes nothing at all; no other step changes the element; next then     *)
(* previous, and three times next, give the element back.                               *)
C19_NextOf(el) == CASE el = "Air" -> "Water" [] el = "Water" -> "Fire" [] el = "Fire" -> "Air"

C19_PrevOf(el) == CASE el = "Air" -> "Fire" [] el = "Water" -> "Air" [] el = "Fire" -> "Water"

C19_ElementStep ==
    IF pc = "events" /\ pc' = "events"
    THEN /\ player'.element =
               (CASE last_ev' = "K1" -> "Air"
                  [] last_ev' = "K2" -> "Water"
                  [] last_ev' = "K3" -> "Fire"
                  [] last_ev' = "E" -> C19_NextOf(player.element)
                  [] last_ev' = "Q" -> C19_PrevOf(player.element)
                  [] OTHER -> player.element)
         /\ last_ev' \in {"K1", "K2", "K3", "Q", "E"} =>
               /\ Game' = [Game EXCEPT !.player.element = player'.element]
               /\ running' = running
         /\ last_ev' = "OTHER" => Game' = Game /\ running' = running
    ELSE player'.element = player.element

C19_Element ==
    /\ [][C19_ElementStep]_vars
    /\ [](player.element \in {"Air", "Water", "Fire"})
    /\ []((tick = 0 /\ spawned_at = << >>) => player.element = "Air")
    /\ [](/\ ElementAfter("Q", ElementAfter("E", player.element)) = player.element
          /\ ElementAfter("E", ElementAfter("Q", player.element)) = player.element
          /\ ElementAfter("E", ElementAfter("E", ElementAfter("E", player.element)))
                 = player.element
          /\ ElementAfter("E", player.element) # player.element)

(* the first event of the run was cycle-next with the element Fire: it is Air now *)
C19_Witness ==
    /\ pc = "events" /\ tick = 1 /\ evn = 1
    /\ last_ev = "E"
    /\ prev.player.element = "Fire" /\ player.element = "Air"

(* the least an enemy of the model falls in one update, in 1/Scale pixel: a Hard enemy *)
(* with sway                                                                           *)
MinFall == (KindSpeed("Hard") * 960) \div Scale

(* the updates after which an enemy spawned at y = -20 has its box below HEIGHT + 20 *)
EnemyLife == ((HEIGHT + 20 + ENEMY_H \div 2 + 1 - SPAWN_Y) * Scale) \div MinFall + 1

(* C20: every update moves every enemy strictly downward and takes it out of the group *)
(* exactly when the top of its box is more than 20 below the bottom edge; so an enemy  *)
(* of the group is out of it, shot, run into by the player or fallen off the bottom,   *)
(* after a bounded number of ticks, unless the loop has ended before.                  *)
C20_FallStep ==
    pc = "update" =>
       /\ \A e \in Range(enemies) :
             /\ EnemyMove(e).py >= e.py + MinFall
             /\ (e.id \in Ids(enemies')) <=> (EnemyRect(EnemyMove(e)).t <= 620)
       /\ \A f \in Range(enemies') : f = EnemyMove(EnemyOf(enemies, f.id))

C20_EnemiesLeave ==
    /\ [][C20_FallStep]_vars
    /\ \A id \in 1..FallIds :
          (id \in Ids(enemies) /\ tick + EnemyLife <= FallTicks)
              ~> (id \notin Ids(enemies) \/ pc \in {"done", "crashed"})

(* the enemy spawned in the first tick of the game has fallen off the bottom *)
C20_Witness ==
    /\ pc = "shoot" /\ spawned_at # << >> /\ spawned_at[1] = 1
    /\ \E e \in Range(prev.enemies) :
          e.id = 1 /\ e.py > HEIGHT * Scale /\ e.id \notin Ids(enemies)

====
